---- MODULE Spec2Model ----
(***************************************************************************)
(* Model of the pets-platform storefront: the cart and checkout handlers   *)
(* of the Shop and Cart pages, the review handler of the inspector         *)
(* dashboard, the seller registration and seller pages, the SocialV2 page  *)
(* and the ProfileV2 pages, run by browser sessions against the hosted     *)
(* entity store and the user_system and inspectors endpoints.              *)
(*                                                                         *)
(* Every await of a handler is one step of the session that runs it, so    *)
(* the steps of two sessions interleave at the awaits.  A store call can   *)
(* fail (a rejected promise); a failed call leaves the store as it was.    *)
(* The store scopes cart_items and orders to the authenticated account.    *)
(***************************************************************************)
EXTENDS Integers, Sequences, FiniteSets, TLC

\* ---------------------------------------------------------------- bounds
MaxRows == 2        \* cart_items rows created in one behaviour
MaxOrders == 2      \* orders created in one behaviour
MaxQty == 2         \* largest quantity a handler is asked to store
MaxStock == 1       \* largest stock a seller enters
MaxEdits == 1       \* product edits by sellers in one behaviour
MaxShops == 2       \* shop rows created in one behaviour
MaxProducts == 1    \* products created by sellers in one behaviour
MaxPosts == 2       \* posts created in one behaviour
MaxAwards == 1      \* awards posted apart from handleCreatePost's in one behaviour
MaxLikes == 3       \* likes_count updates applied in one behaviour
MaxComments == 3    \* comments created in one behaviour

Sessions == {"s1", "s2"}
Users == {"u1", "u2"}
ProductIds == {1, 2}
Prices == {5, 10}
NoUser == "none"
Tainted == 0 - 1

VARIABLES
    \* entity store
    products,       \* product id -> [price, stock, shop_id, seller_id]
    cart_items,     \* set of rows [id, user_id, product_id, quantity]
    nextCartId,     \* id the store gives to the next cart_items row
    orders,         \* sequence of rows, orders[i].id = i
    order_items,    \* sequence of rows [order_id, product_id, quantity, price]
    edits,          \* number of product edits made so far
    \* one browser session (tab)
    account,        \* the account the session's auth cookie belongs to
    page,           \* the page the tab shows: "home", "shop" or "cart"
    user,           \* the page's `user` state (NoUser = null)
    cartItems,      \* the Cart page's `cartItems` state
    pc,             \* the await the running handler is suspended at
    addProd,        \* addToCart: its productId argument
    addFound,       \* addToCart: cartResponse.data.items[0], or NoRow
    coOrder,        \* checkout: orderId
    coIdx,          \* checkout: next line of cartItems to create/delete
    coFailed,       \* checkout: some promise of the current Promise.all rejected
    last,           \* [op, out]: the handler that returned last and how it ended
    \* history
    orderInfo,      \* per order: the lines checked out, the prices then, the outcome
    clean,          \* [user][product]: uninterrupted successful addToCart calls
    \* moderation
    shops_v2,       \* set of rows [id, user_id, status]: the reviewed shops
    posts_v2,       \* set of rows [id, user_id, post_type, review_status,
                    \*   reward_points, is_solved, solver_id, likes_count,
                    \*   comments_count]
    inspectors,     \* the accounts whose inspector flag is set
    dash,           \* per session: the state of the InspectorDashboard page
    resp,           \* the review request the backend served last, and its answer
    \* seller registration
    shops,          \* set of rows [id, user_id, status]: the `shops` collection
    existingShop,   \* SellerRegisterV2: its `existingShop` state (NoShop = null)
    \* community and profile
    social,         \* per session: the state of the SocialV2 page
    user_profile,   \* account -> [experience, level, points], or NoProfile
    profileView,    \* per session: the state of the ProfileV2 page
    check,          \* the eligibility check the backend served last
    grant,          \* the inspector application the backend served last
    awards,         \* number of awards DirectAward has posted so far
    comments,       \* set of rows [id, post_id, user_id]: the `comments` collection
    likes           \* number of likes_count updates the store has applied

storeVars == <<products, cart_items, nextCartId, orders, order_items, edits>>
sessVars == <<account, page, user, cartItems, pc, addProd, addFound, coOrder,
              coIdx, coFailed>>
histVars == <<orderInfo, clean>>
reviewVars == <<shops_v2, posts_v2, inspectors, dash, resp>>
feedVars == <<comments, likes>>
communityVars == <<shops, existingShop, social, user_profile, profileView,
                   check, grant, awards, feedVars>>
vars == <<storeVars, sessVars, last, histVars, reviewVars, communityVars>>

\* ------------------------------------------------------------ the store
NoRow == [id |-> 0, user_id |-> NoUser, product_id |-> 0, quantity |-> 0]

\* the migration assigns products to shops by the parity of their id
ShopOf(id) == IF id % 2 = 1 THEN 1 ELSE 2

\* the rows of S the store shows to the account u
RowsOf(S, u) == {r \in S : r.user_id = u}

\* cart_items.query({}) by a session of the account u
UserRows(u) == RowsOf(cart_items, u)

\* cart_items.query({ query: { product_id } })
ProductRows(u, p) == {r \in UserRows(u) : r.product_id = p}

RowIds(S) == {r.id : r \in S}

\* the items of a query result, in id order
RECURSIVE SortById(_)
SortById(S) ==
    IF S = {} THEN <<>>
    ELSE LET r == CHOOSE x \in S : \A y \in S : x.id <= y.id
         IN <<r>> \o SortById(S \ {r})

\* cart_items.update({ id, data: { quantity } })
UpdateRow(id, q) ==
    {IF r.id = id THEN [r EXCEPT !.quantity = q] ELSE r : r \in cart_items}

\* cart_items.delete({ id })
DeleteRow(id) == {r \in cart_items : r.id # id}

\* cart_items.create({ data: { product_id, quantity } }) by account u
CreateRow(u, p, q) ==
    cart_items \cup {[id |-> nextCartId, user_id |-> u, product_id |-> p,
                      quantity |-> q]}

\* ------------------------------------------------------------ Cart page
\* { ...item, product: productResponse.data }
WithProduct(item) ==
    [id |-> item.id, product_id |-> item.product_id, quantity |-> item.quantity,
     product |-> [price |-> products[item.product_id].price,
                  shop_id |-> products[item.product_id].shop_id]]

\* loadCart over the account's rows: okq = the query succeeded, got = the ids
\* whose products.get succeeded; a failed query keeps the previous cartItems
loadCart(prev, rows, okq, got) ==
    IF ~okq THEN prev
    ELSE LET items == SortById(rows)
             Loaded(it) == it.id \in got
         IN SelectSeq([i \in DOMAIN items |-> WithProduct(items[i])], Loaded)

\* totalAmount with the quantity left out of the sum
RECURSIVE totalAmount_NoQuantity(_)
totalAmount_NoQuantity(items) ==
    IF items = <<>> THEN 0
    ELSE totalAmount_NoQuantity(SubSeq(items, 1, Len(items) - 1))
         + items[Len(items)].product.price

\* cartItems.reduce((sum, item) => sum + item.product.price * item.quantity, 0)
RECURSIVE totalAmount(_)
totalAmount(items) ==
    IF items = <<>> THEN 0
    ELSE totalAmount(SubSeq(items, 1, Len(items) - 1))
         + items[Len(items)].product.price * items[Len(items)].quantity

Done(op, out) == [op |-> op, out |-> out]

\* history: an operation other than an uninterrupted addToCart wrote rows of (u, p)
Taint(u, p) == [clean EXCEPT ![u][p] = Tainted]

TaintRow(id) ==
    IF \E r \in cart_items : r.id = id
    THEN LET r == CHOOSE x \in cart_items : x.id = id
         IN Taint(r.user_id, r.product_id)
    ELSE clean

\* ----------------------------------------------------------- moderation
ShopIds == {1, 2}
PostIds == {1}
NoItem == [id |-> 0, itemType |-> "none"]
NoRequest == [user |-> NoUser, shop |-> 0, decision |-> "none",
              claimed |-> FALSE, result |-> "none"]

\* ------------------------------------------------- community and profile
NoShop == [id |-> 0, user_id |-> NoUser, status |-> "none"]
NoProfile == [experience |-> 0, level |-> 0, points |-> 0]
NoEligibility == [eligible |-> FALSE, required_level |-> 0, required_points |-> 0]
NoCheck == [user |-> NoUser, via |-> "none", profile |-> NoProfile,
            answer |-> NoEligibility]
NoGrant == [user |-> NoUser, claimed |-> FALSE, profile |-> NoProfile,
            result |-> "none"]

\* the SocialV2 page as it mounts
SocialInit == [activeTab |-> "daily", posts |-> <<>>]

\* the ProfileV2 page as it mounts
ProfileInit ==
    [userProfile |-> NoProfile, inspectorEligibility |-> NoEligibility,
     isInspector |-> FALSE]

\* no shop registered, every account with the default profile
CommunityInit ==
    /\ shops = {}
    /\ existingShop = [s \in Sessions |-> NoShop]
    /\ social = [s \in Sessions |-> SocialInit]
    /\ user_profile = [u \in Users |-> NoProfile]
    /\ profileView = [s \in Sessions |-> ProfileInit]
    /\ check = NoCheck
    /\ grant = NoGrant
    /\ awards = 0
    /\ comments = {}
    /\ likes = 0

\* the InspectorDashboard page as it mounts
DashInit ==
    [isInspector |-> FALSE, loading |-> TRUE, pendingShops |-> <<>>,
     pendingPosts |-> <<>>, selectedItem |-> NoItem, reviewType |-> "approve",
     isReviewDialogOpen |-> FALSE]

\* the shop applications and the help post that wait for review
PendingApplications ==
    {[id |-> 1, user_id |-> "u1", status |-> "pending"],
     [id |-> 2, user_id |-> "u2", status |-> "pending"]}

PendingHelpPosts ==
    {[id |-> 1, user_id |-> "u2", post_type |-> "help",
      review_status |-> "pending", reward_points |-> 10,
      is_solved |-> FALSE, solver_id |-> NoUser, likes_count |-> 0,
      comments_count |-> 0]}

\* two shops and one help post wait for review; the account u1 is an inspector
ReviewInit ==
    /\ shops_v2 = PendingApplications
    /\ posts_v2 = PendingHelpPosts
    /\ inspectors = {"u1"}
    /\ dash = [s \in Sessions |-> DashInit]
    /\ resp = NoRequest

\* ----------------------------------------------------------------- Init
\* Two tabs of the account u1, both on the home page; the store holds the two
\* products and one cart row of another account, u2.
Init ==
    /\ products = [p \in ProductIds |->
                     [price |-> IF p = 1 THEN 10 ELSE 5, stock |-> 1,
                      shop_id |-> ShopOf(p), seller_id |-> "u2"]]
    /\ cart_items = {[id |-> 1, user_id |-> "u2", product_id |-> 1, quantity |-> 1]}
    /\ nextCartId = 2
    /\ orders = <<>>
    /\ order_items = <<>>
    /\ edits = 0
    /\ account = [s \in Sessions |-> "u1"]
    /\ page = [s \in Sessions |-> "home"]
    /\ user = [s \in Sessions |-> NoUser]
    /\ cartItems = [s \in Sessions |-> <<>>]
    /\ pc = [s \in Sessions |-> "idle"]
    /\ addProd = [s \in Sessions |-> 0]
    /\ addFound = [s \in Sessions |-> NoRow]
    /\ coOrder = [s \in Sessions |-> 0]
    /\ coIdx = [s \in Sessions |-> 0]
    /\ coFailed = [s \in Sessions |-> FALSE]
    /\ last = Done("none", "none")
    /\ orderInfo = <<>>
    /\ clean = [u \in Users |-> [p \in ProductIds |-> 0]]
    /\ ReviewInit
    /\ CommunityInit

addVars == <<addProd, addFound>>
coVars == <<coOrder, coIdx, coFailed>>

\* ------------------------------------------------------------- Shop page
\* Shop mounts: checkAuth sets `user` from auth.me(), or null when it throws
OpenShop(s) ==
    /\ pc[s] = "idle"
    /\ \E ok \in BOOLEAN :
         user' = [user EXCEPT ![s] = IF ok THEN account[s] ELSE NoUser]
    /\ page' = [page EXCEPT ![s] = "shop"]
    /\ cartItems' = [cartItems EXCEPT ![s] = <<>>]
    /\ last' = Done("checkAuth", "none")
    /\ UNCHANGED <<reviewVars, communityVars, storeVars, histVars, account, pc, addVars, coVars>>

\* addToCart with no user: the login toast, nothing else
AddToCartGuest(s, p) ==
    /\ pc[s] = "idle" /\ page[s] = "shop" /\ user[s] = NoUser
    /\ last' = Done("addToCart", "login_required")
    /\ UNCHANGED <<reviewVars, communityVars, storeVars, histVars, account, page, user, cartItems, pc,
                   addVars, coVars>>

\* addToCart, up to its first await: the query for the product's cart row
AddToCartQuery(s, p) ==
    /\ pc[s] = "idle" /\ page[s] = "shop" /\ user[s] # NoUser
    /\ \E ok \in BOOLEAN :
         IF ok
         THEN /\ IF ProductRows(account[s], p) = {}
                 THEN addFound' = [addFound EXCEPT ![s] = NoRow]
                 ELSE \E r \in ProductRows(account[s], p) :
                        addFound' = [addFound EXCEPT ![s] = r]
              /\ addProd' = [addProd EXCEPT ![s] = p]
              /\ pc' = [pc EXCEPT ![s] = "add_write"]
              /\ clean' = IF \E t \in Sessions \ {s} :
                               /\ pc[t] = "add_write"
                               /\ account[t] = account[s]
                               /\ addProd[t] = p
                          THEN Taint(account[s], p)
                          ELSE clean
              /\ UNCHANGED last
         ELSE /\ last' = Done("addToCart", "add_failed")
              /\ UNCHANGED <<addVars, pc, clean>>
    /\ UNCHANGED <<reviewVars, communityVars, storeVars, orderInfo, account, page, user, cartItems, coVars>>

\* addToCartWrite that creates a row whether or not one was found
addToCartWrite_AlwaysCreate(found, u, p) == CreateRow(u, p, 1)

\* the rows after addToCart's write: update of the row found, or a create
addToCartWrite(found, u, p) ==
    IF found # NoRow
    THEN UpdateRow(found.id, found.quantity + 1)
    ELSE CreateRow(u, p, 1)

\* addToCart, from the query's answer to its end
AddToCartWrite(s) ==
    /\ pc[s] = "add_write"
    /\ \E ok \in BOOLEAN :
         IF ok
         THEN /\ addFound[s] = NoRow => nextCartId <= MaxRows + 1
              /\ addFound[s] # NoRow => addFound[s].quantity < MaxQty
              /\ cart_items' = addToCartWrite(addFound[s], account[s], addProd[s])
              /\ nextCartId' = IF addFound[s] = NoRow
                               THEN nextCartId + 1 ELSE nextCartId
              /\ clean' = IF clean[account[s]][addProd[s]] = Tainted
                          THEN clean
                          ELSE [clean EXCEPT ![account[s]][addProd[s]] = @ + 1]
              /\ last' = Done("addToCart", "added")
         ELSE /\ last' = Done("addToCart", "add_failed")
              /\ UNCHANGED <<cart_items, nextCartId, clean>>
    /\ pc' = [pc EXCEPT ![s] = "idle"]
    /\ addProd' = [addProd EXCEPT ![s] = 0]
    /\ addFound' = [addFound EXCEPT ![s] = NoRow]
    /\ UNCHANGED <<reviewVars, communityVars, products, orders, order_items, edits, orderInfo, account,
                   page, user, cartItems, coVars>>

\* ------------------------------------------------------------- Cart page
\* Cart mounts: checkAuth reads auth.me(), then loadCart; when auth.me()
\* throws, the login toast and navigate('/')
OpenCart(s) ==
    /\ pc[s] = "idle"
    /\ \E ok \in BOOLEAN :
         IF ok
         THEN /\ user' = [user EXCEPT ![s] = account[s]]
              /\ page' = [page EXCEPT ![s] = "cart"]
              /\ \E okq \in BOOLEAN, got \in SUBSET RowIds(UserRows(account[s])) :
                   cartItems' = [cartItems EXCEPT ![s] =
                                   loadCart(<<>>, UserRows(account[s]), okq, got)]
              /\ last' = Done("checkAuth", "none")
         ELSE /\ user' = [user EXCEPT ![s] = NoUser]
              /\ page' = [page EXCEPT ![s] = "home"]
              /\ cartItems' = [cartItems EXCEPT ![s] = <<>>]
              /\ last' = Done("checkAuth", "login_required")
    /\ UNCHANGED <<reviewVars, communityVars, storeVars, histVars, account, pc, addVars, coVars>>

ItemIds(items) == {items[i].id : i \in DOMAIN items}

\* the guard of updateQuantity with the floor at 0 instead of 1
QuantityRejected_Below0(newQuantity) == newQuantity < 0

\* if (newQuantity < 1) return;
QuantityRejected(newQuantity) == newQuantity < 1

\* updateQuantity(itemId, newQuantity), with the loadCart() it ends with
UpdateQuantity(s, itemId, newQuantity) ==
    /\ pc[s] = "idle" /\ page[s] = "cart"
    /\ IF QuantityRejected(newQuantity)
       THEN /\ last' = Done("updateQuantity", "returned")
            /\ UNCHANGED <<cart_items, clean, cartItems>>
       ELSE \E ok \in BOOLEAN :
              IF ok
              THEN /\ cart_items' = UpdateRow(itemId, newQuantity)
                   /\ clean' = TaintRow(itemId)
                   /\ \E okq \in BOOLEAN,
                         got \in SUBSET RowIds(RowsOf(cart_items', account[s])) :
                        cartItems' = [cartItems EXCEPT ![s] =
                                        loadCart(cartItems[s],
                                                 RowsOf(cart_items', account[s]),
                                                 okq, got)]
                   /\ last' = Done("updateQuantity", "updated")
              ELSE /\ last' = Done("updateQuantity", "update_failed")
                   /\ UNCHANGED <<cart_items, clean, cartItems>>
    /\ UNCHANGED <<reviewVars, communityVars, products, nextCartId, orders, order_items, edits, orderInfo,
                   account, page, user, pc, addVars, coVars>>

\* removeItem(itemId), with the loadCart() it ends with
RemoveItem(s, itemId) ==
    /\ pc[s] = "idle" /\ page[s] = "cart"
    /\ \E ok \in BOOLEAN :
         IF ok
         THEN /\ cart_items' = DeleteRow(itemId)
              /\ clean' = TaintRow(itemId)
              /\ \E okq \in BOOLEAN,
                    got \in SUBSET RowIds(RowsOf(cart_items', account[s])) :
                   cartItems' = [cartItems EXCEPT ![s] =
                                   loadCart(cartItems[s],
                                            RowsOf(cart_items', account[s]),
                                            okq, got)]
              /\ last' = Done("removeItem", "removed")
         ELSE /\ last' = Done("removeItem", "remove_failed")
              /\ UNCHANGED <<cart_items, clean, cartItems>>
    /\ UNCHANGED <<reviewVars, communityVars, products, nextCartId, orders, order_items, edits, orderInfo,
                   account, page, user, pc, addVars, coVars>>

\* -------------------------------------------------------------- checkout
\* checkout with an empty cartItems: the empty-cart toast and return
CheckoutEmpty(s) ==
    /\ pc[s] = "idle" /\ page[s] = "cart"
    /\ cartItems[s] = <<>>
    /\ last' = Done("checkout", "cart_empty")
    /\ UNCHANGED <<reviewVars, communityVars, storeVars, histVars, account, page, user, cartItems, pc,
                   addVars, coVars>>

\* the data of orders.create
NewOrder(id, u, items) ==
    [id |-> id, user_id |-> u, shop_id |-> items[1].product.shop_id,
     total_amount |-> totalAmount(items), status |-> "completed"]

\* the data of order_items.create for one line
NewOrderItem(orderId, item) ==
    [order_id |-> orderId, product_id |-> item.product_id,
     quantity |-> item.quantity, price |-> item.product.price]

SetOutcome(o, out) == [orderInfo EXCEPT ![o].outcome = out]

\* checkout, up to the await of orders.create
CheckoutCreateOrder(s) ==
    /\ pc[s] = "idle" /\ page[s] = "cart"
    /\ cartItems[s] # <<>>
    /\ \E ok \in BOOLEAN :
         IF ok
         THEN /\ Len(orders) < MaxOrders
              /\ orders' = Append(orders,
                             NewOrder(Len(orders) + 1, account[s], cartItems[s]))
              /\ orderInfo' = Append(orderInfo,
                     [lines |-> cartItems[s],
                      prices |-> [p \in ProductIds |-> products[p].price],
                      outcome |-> "running"])
              /\ coOrder' = [coOrder EXCEPT ![s] = Len(orders) + 1]
              /\ coIdx' = [coIdx EXCEPT ![s] = 1]
              /\ coFailed' = [coFailed EXCEPT ![s] = FALSE]
              /\ pc' = [pc EXCEPT ![s] = "co_items"]
              /\ UNCHANGED last
         ELSE /\ last' = Done("checkout", "order_failed")
              /\ UNCHANGED <<orders, orderInfo, coVars, pc>>
    /\ UNCHANGED <<reviewVars, communityVars, products, cart_items, nextCartId, order_items, edits, clean,
                   account, page, user, cartItems, addVars>>

\* the Promise.all that resolves although a create was rejected
itemsRejected_Never(failed) == FALSE

\* await Promise.all(order_items.create ...) throws if a create was rejected
itemsRejected(failed) == failed

\* checkout: one order_items.create of the first Promise.all settles; after
\* the last one the handler goes on to clear the cart, or to its catch
CheckoutCreateItem(s) ==
    /\ pc[s] = "co_items"
    /\ \E ok \in BOOLEAN :
         LET failed == coFailed[s] \/ ~ok
             isLast == coIdx[s] = Len(cartItems[s])
         IN /\ order_items' =
                  IF ok THEN Append(order_items,
                                    NewOrderItem(coOrder[s], cartItems[s][coIdx[s]]))
                  ELSE order_items
            /\ IF ~isLast
               THEN /\ coIdx' = [coIdx EXCEPT ![s] = @ + 1]
                    /\ coFailed' = [coFailed EXCEPT ![s] = failed]
                    /\ UNCHANGED <<pc, last, orderInfo, coOrder>>
               ELSE IF itemsRejected(failed)
                    THEN /\ pc' = [pc EXCEPT ![s] = "idle"]
                         /\ last' = Done("checkout", "order_failed")
                         /\ orderInfo' = SetOutcome(coOrder[s], "failed")
                         /\ coOrder' = [coOrder EXCEPT ![s] = 0]
                         /\ coIdx' = [coIdx EXCEPT ![s] = 0]
                         /\ coFailed' = [coFailed EXCEPT ![s] = FALSE]
                    ELSE /\ pc' = [pc EXCEPT ![s] = "co_delete"]
                         /\ coIdx' = [coIdx EXCEPT ![s] = 1]
                         /\ UNCHANGED <<last, orderInfo, coOrder, coFailed>>
    /\ UNCHANGED <<reviewVars, communityVars, products, cart_items, nextCartId, orders, edits, clean,
                   account, page, user, cartItems, addVars>>

\* checkout: one cart_items.delete of the second Promise.all settles; after
\* the last one the success toast and navigate('/profile'), or the catch
CheckoutDeleteItem(s) ==
    /\ pc[s] = "co_delete"
    /\ \E ok \in BOOLEAN :
         LET failed == coFailed[s] \/ ~ok
             isLast == coIdx[s] = Len(cartItems[s])
             id == cartItems[s][coIdx[s]].id
         IN /\ cart_items' = IF ok THEN DeleteRow(id) ELSE cart_items
            /\ clean' = IF ok THEN TaintRow(id) ELSE clean
            /\ IF ~isLast
               THEN /\ coIdx' = [coIdx EXCEPT ![s] = @ + 1]
                    /\ coFailed' = [coFailed EXCEPT ![s] = failed]
                    /\ UNCHANGED <<pc, last, orderInfo, coOrder, page, cartItems>>
               ELSE /\ pc' = [pc EXCEPT ![s] = "idle"]
                    /\ coOrder' = [coOrder EXCEPT ![s] = 0]
                    /\ coIdx' = [coIdx EXCEPT ![s] = 0]
                    /\ coFailed' = [coFailed EXCEPT ![s] = FALSE]
                    /\ IF failed
                       THEN /\ last' = Done("checkout", "order_failed")
                            /\ orderInfo' = SetOutcome(coOrder[s], "failed")
                            /\ UNCHANGED <<page, cartItems>>
                       ELSE /\ last' = Done("checkout", "order_ok")
                            /\ orderInfo' = SetOutcome(coOrder[s], "ok")
                            /\ page' = [page EXCEPT ![s] = "home"]
                            /\ cartItems' = [cartItems EXCEPT ![s] = <<>>]
    /\ UNCHANGED <<reviewVars, communityVars, products, nextCartId, orders, order_items, edits, account,
                   user, addVars>>

\* ------------------------------------------------------------ Seller page
\* handleSubmit with editingProduct set: products.update with the form's values
EditProduct(p, price, stock) ==
    /\ edits < MaxEdits
    /\ products' = [products EXCEPT ![p].price = price, ![p].stock = stock]
    /\ edits' = edits + 1
    /\ last' = Done("handleSubmit", "product_updated")
    /\ UNCHANGED <<reviewVars, communityVars, cart_items, nextCartId, orders, order_items, sessVars, histVars>>

\* ------------------------------------------------------------------ Next
ShopNext ==
    \/ \E s \in Sessions : OpenShop(s)
    \/ \E s \in Sessions, p \in ProductIds : AddToCartGuest(s, p)
    \/ \E s \in Sessions, p \in ProductIds : AddToCartQuery(s, p)
    \/ \E s \in Sessions : AddToCartWrite(s)

CartNext ==
    \/ \E s \in Sessions : \E id \in ItemIds(cartItems[s]), q \in 0..MaxQty :
         UpdateQuantity(s, id, q)
    \/ \E s \in Sessions : \E id \in ItemIds(cartItems[s]) : RemoveItem(s, id)

CheckoutNext ==
    \/ \E s \in Sessions : CheckoutEmpty(s)
    \/ \E s \in Sessions : CheckoutCreateOrder(s)
    \/ \E s \in Sessions : CheckoutCreateItem(s)
    \/ \E s \in Sessions : CheckoutDeleteItem(s)

SellerNext ==
    \E p \in ProductIds, price \in Prices, stock \in 1..MaxStock :
      EditProduct(p, price, stock)

\* the Shop page and the Cart page up to checkout
Next ==
    \/ ShopNext
    \/ \E s \in Sessions : OpenCart(s)
    \/ CartNext

Spec == Init /\ [][Next]_vars

\* the carts a checkout starts from: the account u1 has no row, one row for
\* product 1, or the rows (product 1, quantity 2) and (product 2, quantity 3)
InitCarts ==
    { {},
      {[id |-> 2, user_id |-> "u1", product_id |-> 1, quantity |-> 1]},
      {[id |-> 2, user_id |-> "u1", product_id |-> 1, quantity |-> 2],
       [id |-> 3, user_id |-> "u1", product_id |-> 2, quantity |-> 3]} }

\* the Init of Spec after the account u1 has filled its cart
CheckoutInit ==
    /\ products = [p \in ProductIds |->
                     [price |-> IF p = 1 THEN 10 ELSE 5, stock |-> 1,
                      shop_id |-> ShopOf(p), seller_id |-> "u2"]]
    /\ \E c \in InitCarts :
         /\ cart_items = c \cup {[id |-> 1, user_id |-> "u2", product_id |-> 1,
                                  quantity |-> 1]}
         /\ nextCartId = 2 + Cardinality(c)
         /\ clean = [u \in Users |-> [p \in ProductIds |->
                       IF u = "u1" /\ \E r \in c : r.product_id = p
                       THEN (CHOOSE r \in c : r.product_id = p).quantity
                       ELSE 0]]
    /\ orders = <<>>
    /\ order_items = <<>>
    /\ edits = 0
    /\ account = [s \in Sessions |-> "u1"]
    /\ page = [s \in Sessions |-> "home"]
    /\ user = [s \in Sessions |-> NoUser]
    /\ cartItems = [s \in Sessions |-> <<>>]
    /\ pc = [s \in Sessions |-> "idle"]
    /\ addProd = [s \in Sessions |-> 0]
    /\ addFound = [s \in Sessions |-> NoRow]
    /\ coOrder = [s \in Sessions |-> 0]
    /\ coIdx = [s \in Sessions |-> 0]
    /\ coFailed = [s \in Sessions |-> FALSE]
    /\ last = Done("none", "none")
    /\ orderInfo = <<>>
    /\ ReviewInit
    /\ CommunityInit

\* the Cart page with checkout, and the sellers' product edits
CheckoutSpecNext ==
    \/ \E s \in Sessions : OpenCart(s)
    \/ CheckoutNext
    \/ SellerNext

CheckoutSpec == CheckoutInit /\ [][CheckoutSpecNext]_vars

\* ------------------------------------------------- moderation: backend
\* GET /api/v1/inspectors/me: is_inspector of the caller
IsInspector(u) == u \in inspectors

RECURSIVE Ascending(_)
Ascending(S) ==
    IF S = {} THEN <<>>
    ELSE LET m == CHOOSE x \in S : \A y \in S : x <= y
         IN <<m>> \o Ascending(S \ {m})

\* GET /api/v1/inspectors/tasks: the pending entities by creation time
PendingShopsOf(S) == Ascending({r.id : r \in {x \in S : x.status = "pending"}})
PendingPostsOf(S) ==
    Ascending({r.id : r \in {x \in S : x.review_status = "pending"}})
PendingShops == PendingShopsOf(shops_v2)
PendingPosts == PendingPostsOf(posts_v2)

\* the status of the shops_v2 row with this id ("none": there is no such row)
ShopStatus(id) ==
    IF \E r \in shops_v2 : r.id = id
    THEN (CHOOSE r \in shops_v2 : r.id = id).status
    ELSE "none"

\* the shop-review endpoint that grants whoever claims to be an inspector
ReviewResult_TrustClaim(u, id, claimed) ==
    IF ~(IsInspector(u) \/ claimed) THEN "Forbidden"
    ELSE IF ShopStatus(id) = "none" THEN "NotFound"
    ELSE IF ShopStatus(id) # "pending" THEN "InvalidState"
    ELSE "ok"

\* the shop-review endpoint that reviews a shop whatever its status is
ReviewResult_NoStateCheck(u, id, claimed) ==
    IF ~IsInspector(u) THEN "Forbidden"
    ELSE IF ShopStatus(id) = "none" THEN "NotFound"
    ELSE "ok"

\* POST /api/v1/shop-reviews/{id}/{decision} by the account u: its answer.
\* `claimed` is what the request body asserts about the caller.
ReviewResult(u, id, claimed) ==
    IF ~IsInspector(u) THEN "Forbidden"
    ELSE IF ShopStatus(id) = "none" THEN "NotFound"
    ELSE IF ShopStatus(id) # "pending" THEN "InvalidState"
    ELSE "ok"

\* the rows of shops_v2 after the endpoint has served the request
ReviewedShops(u, id, decision, claimed) ==
    IF ReviewResult(u, id, claimed) = "ok"
    THEN {IF r.id = id
          THEN [r EXCEPT !.status = IF decision = "approve" THEN "approved"
                                    ELSE "rejected"]
          ELSE r : r \in shops_v2}
    ELSE shops_v2

Served(u, id, decision, claimed) ==
    [user |-> u, shop |-> id, decision |-> decision, claimed |-> claimed,
     result |-> ReviewResult(u, id, claimed)]

cartVars == <<storeVars, user, cartItems, pc, addProd, addFound, coOrder, coIdx,
              coFailed, histVars>>

\* a client other than the dashboard posts to the shop-review endpoint
DirectReview(s, id, decision, claimed) ==
    /\ shops_v2' = ReviewedShops(account[s], id, decision, claimed)
    /\ resp' = Served(account[s], id, decision, claimed)
    /\ UNCHANGED <<cartVars, communityVars, account, page, last, posts_v2, inspectors, dash>>

\* --------------------------------------------- InspectorDashboard page
\* loadTasks: ok = the request succeeded; a failed one keeps the lists
loadTasks(d, ok, shopTasks, postTasks) ==
    IF ok THEN [d EXCEPT !.pendingShops = shopTasks, !.pendingPosts = postTasks]
    ELSE d

\* the page mounts: checkAuth, then checkInspectorStatus with its loadTasks
OpenDashboard(s) ==
    /\ pc[s] = "idle"
    /\ \E okMe \in BOOLEAN, okStatus \in BOOLEAN, okTasks \in BOOLEAN :
         IF ~okMe
         THEN /\ page' = [page EXCEPT ![s] = "home"]
              /\ dash' = [dash EXCEPT ![s] = DashInit]
              /\ last' = Done("checkAuth", "login_required")
         ELSE IF ~okStatus
         THEN /\ page' = [page EXCEPT ![s] = "home"]
              /\ dash' = [dash EXCEPT ![s] = DashInit]
              /\ last' = Done("checkInspectorStatus", "check_failed")
         ELSE IF ~IsInspector(account[s])
         THEN /\ page' = [page EXCEPT ![s] = "home"]
              /\ dash' = [dash EXCEPT ![s] = DashInit]
              /\ last' = Done("checkInspectorStatus", "not_inspector")
         ELSE /\ page' = [page EXCEPT ![s] = "inspector"]
              /\ dash' = [dash EXCEPT ![s] =
                            [loadTasks(DashInit, okTasks, PendingShops, PendingPosts)
                               EXCEPT !.isInspector = TRUE, !.loading = FALSE]]
              /\ last' = Done("checkInspectorStatus", "none")
    /\ UNCHANGED <<cartVars, communityVars, account, shops_v2, posts_v2, inspectors, resp>>

\* openReviewDialog(item, type, itemType) on a card of the task lists
OpenReviewDialog(s, id, type, itemType) ==
    /\ pc[s] = "idle" /\ page[s] = "inspector" /\ ~dash[s].loading
    /\ dash' = [dash EXCEPT ![s].selectedItem = [id |-> id, itemType |-> itemType],
                            ![s].reviewType = type,
                            ![s].isReviewDialogOpen = TRUE]
    /\ UNCHANGED <<cartVars, communityVars, account, page, last, shops_v2, posts_v2, inspectors, resp>>

\* handleReview: the dialog's confirm button
HandleReview(s) ==
    /\ pc[s] = "idle" /\ page[s] = "inspector" /\ dash[s].isReviewDialogOpen
    /\ LET item == dash[s].selectedItem
           type == dash[s].reviewType
       IN IF item = NoItem
          THEN UNCHANGED <<shops_v2, resp, dash, last>>
          ELSE IF item.itemType = "shop"
          THEN \E okCall \in BOOLEAN :
                 IF ~okCall
                 THEN /\ last' = Done("handleReview", "review_failed")
                      /\ UNCHANGED <<shops_v2, resp, dash>>
                 ELSE /\ shops_v2' = ReviewedShops(account[s], item.id, type, FALSE)
                      /\ resp' = Served(account[s], item.id, type, FALSE)
                      /\ IF resp'.result = "ok"
                         THEN /\ last' = Done("handleReview", type)
                              /\ \E okTasks \in BOOLEAN :
                                   dash' = [dash EXCEPT ![s] =
                                     loadTasks([dash[s] EXCEPT
                                                  !.isReviewDialogOpen = FALSE],
                                               okTasks,
                                               PendingShopsOf(shops_v2'),
                                               PendingPosts)]
                         ELSE /\ last' = Done("handleReview", "review_failed")
                              /\ UNCHANGED dash
          ELSE /\ last' = Done("handleReview", "post_review_in_development")
               /\ UNCHANGED <<shops_v2, resp, dash>>
    /\ UNCHANGED <<cartVars, communityVars, account, page, posts_v2, inspectors>>

ItemsOf(ids) == {ids[i] : i \in DOMAIN ids}

ReviewNext ==
    \/ \E s \in Sessions : OpenDashboard(s)
    \/ \E s \in Sessions : \E id \in ItemsOf(dash[s].pendingShops),
                              type \in {"approve", "reject"} :
         OpenReviewDialog(s, id, type, "shop")
    \/ \E s \in Sessions : \E id \in ItemsOf(dash[s].pendingPosts),
                              type \in {"approve", "reject"} :
         OpenReviewDialog(s, id, type, "post")
    \/ \E s \in Sessions : HandleReview(s)
    \/ \E s \in Sessions, id \in ShopIds, decision \in {"approve", "reject"},
          claimed \in BOOLEAN :
         DirectReview(s, id, decision, claimed)

\* the sessions of two accounts on the home page, shops and a post to review
ReviewSpecInit ==
    /\ products = [p \in ProductIds |->
                     [price |-> IF p = 1 THEN 10 ELSE 5, stock |-> 1,
                      shop_id |-> ShopOf(p), seller_id |-> "u2"]]
    /\ cart_items = {}
    /\ nextCartId = 1
    /\ orders = <<>>
    /\ order_items = <<>>
    /\ edits = 0
    /\ account = [s \in Sessions |-> IF s = "s1" THEN "u1" ELSE "u2"]
    /\ page = [s \in Sessions |-> "home"]
    /\ user = [s \in Sessions |-> NoUser]
    /\ cartItems = [s \in Sessions |-> <<>>]
    /\ pc = [s \in Sessions |-> "idle"]
    /\ addProd = [s \in Sessions |-> 0]
    /\ addFound = [s \in Sessions |-> NoRow]
    /\ coOrder = [s \in Sessions |-> 0]
    /\ coIdx = [s \in Sessions |-> 0]
    /\ coFailed = [s \in Sessions |-> FALSE]
    /\ last = Done("none", "none")
    /\ orderInfo = <<>>
    /\ clean = [u \in Users |-> [p \in ProductIds |-> 0]]
    /\ shops_v2 = PendingApplications
    /\ posts_v2 = PendingHelpPosts
    /\ inspectors \in {{"u1"}, {"u1", "u2"}}
    /\ dash = [s \in Sessions |-> DashInit]
    /\ resp = NoRequest
    /\ CommunityInit

ReviewSpec == ReviewSpecInit /\ [][ReviewNext]_vars

\* ------------------------------------------------- seller registration
\* shops.query({}) / shops_v2.query({}): the rows of the calling account
OwnShops(S, u) == {r \in S : r.user_id = u}

\* the row the store adds for a create call of the account u
NewShop(S, u, status) ==
    [id |-> Cardinality(S) + 1, user_id |-> u, status |-> status]

sellerFrame == <<cartVars, account, reviewVars, social, user_profile,
                 profileView, check, grant, awards, feedVars>>

\* SellerRegister (route /seller/register) mounts: checkAuth
OpenSellerRegister(s) ==
    /\ pc[s] = "idle"
    /\ \E okMe \in BOOLEAN, okQuery \in BOOLEAN :
         IF ~(okMe /\ okQuery)
         THEN /\ page' = [page EXCEPT ![s] = "home"]
              /\ last' = Done("checkAuth", "login_required")
         ELSE IF OwnShops(shops, account[s]) # {}
         THEN /\ page' = [page EXCEPT ![s] = "seller"]
              /\ last' = Done("checkAuth", "already_has_shop")
         ELSE /\ page' = [page EXCEPT ![s] = "seller_register"]
              /\ last' = Done("checkAuth", "none")
    /\ UNCHANGED <<sellerFrame, shops, existingShop>>

\* the status SellerRegister.handleSubmit gives the shop it creates
registerStatus == "active"

\* SellerRegister.handleSubmit; filled = shopName and description are set
SubmitSellerRegister(s, filled) ==
    /\ pc[s] = "idle" /\ page[s] = "seller_register"
    /\ Cardinality(shops) + Cardinality(shops_v2) < MaxShops
    /\ IF ~filled
       THEN /\ last' = Done("handleSubmit", "fill_all_fields")
            /\ UNCHANGED <<shops, page>>
       ELSE \E ok \in BOOLEAN :
              IF ok
              THEN /\ shops' = shops \cup {NewShop(shops, account[s], registerStatus)}
                   /\ page' = [page EXCEPT ![s] = "seller"]
                   /\ last' = Done("handleSubmit", "shop_opened")
              ELSE /\ last' = Done("handleSubmit", "open_failed")
                   /\ UNCHANGED <<shops, page>>
    /\ UNCHANGED <<sellerFrame, existingShop>>

\* the other SellerRegister page: it mounts without any request
OpenSellerRegisterAlt(s) ==
    /\ pc[s] = "idle"
    /\ page' = [page EXCEPT ![s] = "seller_register_alt"]
    /\ UNCHANGED <<sellerFrame, shops, existingShop, last>>

\* its handleSubmit; filled = shopName.trim() is not empty
SubmitSellerRegisterAlt(s, filled) ==
    /\ pc[s] = "idle" /\ page[s] = "seller_register_alt"
    /\ Cardinality(shops) + Cardinality(shops_v2) < MaxShops
    /\ IF ~filled
       THEN /\ last' = Done("handleSubmit", "enter_shop_name")
            /\ UNCHANGED <<shops, page>>
       ELSE \E ok \in BOOLEAN :
              IF ok
              THEN /\ shops' = shops \cup {NewShop(shops, account[s], "active")}
                   /\ page' = [page EXCEPT ![s] = "profile"]
                   /\ last' = Done("handleSubmit", "shop_created")
              ELSE /\ last' = Done("handleSubmit", "create_failed")
                   /\ UNCHANGED <<shops, page>>
    /\ UNCHANGED <<sellerFrame, existingShop>>

\* SellerRegisterV2.checkAuth against the rows `rows` of shops_v2: the page
\* and the existingShop it leaves the session with
MountRegisterV2(s, rows, okMe, okQuery, first) ==
    IF ~(okMe /\ okQuery)
    THEN /\ page' = [page EXCEPT ![s] = "home"]
         /\ existingShop' = [existingShop EXCEPT ![s] = NoShop]
    ELSE /\ page' = [page EXCEPT ![s] = "seller_register_v2"]
         /\ existingShop' = [existingShop EXCEPT ![s] =
                               IF OwnShops(rows, account[s]) = {} THEN NoShop
                               ELSE first]

\* items[0] of a query without a sort: any of the rows
FirstOf(rows) == IF rows = {} THEN {NoShop} ELSE rows

\* SellerRegisterV2 mounts
OpenSellerRegisterV2(s) ==
    /\ pc[s] = "idle"
    /\ \E okMe \in BOOLEAN, okQuery \in BOOLEAN,
          first \in FirstOf(OwnShops(shops_v2, account[s])) :
         /\ MountRegisterV2(s, shops_v2, okMe, okQuery, first)
         /\ last' = IF okMe /\ okQuery THEN Done("checkAuth", "none")
                    ELSE Done("checkAuth", "login_required")
    /\ UNCHANGED <<cartVars, account, posts_v2, inspectors, dash, resp, shops_v2,
                   shops, social, user_profile, profileView, check, grant, awards, feedVars>>

\* SellerRegisterV2.handleSubmit, shown while existingShop is null; on success
\* it reloads the page, which mounts again
SubmitSellerRegisterV2(s, filled) ==
    /\ pc[s] = "idle" /\ page[s] = "seller_register_v2"
    /\ existingShop[s] = NoShop
    /\ Cardinality(shops) + Cardinality(shops_v2) < MaxShops
    /\ IF ~filled
       THEN /\ last' = Done("handleSubmit", "fill_all_fields")
            /\ UNCHANGED <<shops_v2, page, existingShop>>
       ELSE \E ok \in BOOLEAN :
              IF ok
              THEN /\ shops_v2' = shops_v2 \cup
                                    {NewShop(shops_v2, account[s], "pending")}
                   /\ last' = Done("handleSubmit", "submitted")
                   /\ \E okMe \in BOOLEAN, okQuery \in BOOLEAN,
                         first \in FirstOf(OwnShops(shops_v2', account[s])) :
                        MountRegisterV2(s, shops_v2', okMe, okQuery, first)
              ELSE /\ last' = Done("handleSubmit", "submit_failed")
                   /\ UNCHANGED <<shops_v2, page, existingShop>>
    /\ UNCHANGED <<cartVars, account, posts_v2, inspectors, dash, resp, shops,
                   social, user_profile, profileView, check, grant, awards, feedVars>>

\* Seller (route /seller) mounts: checkAuth
OpenSeller(s) ==
    /\ pc[s] = "idle"
    /\ \E okMe \in BOOLEAN :
         page' = [page EXCEPT ![s] = IF okMe THEN "seller" ELSE "home"]
    /\ UNCHANGED <<sellerFrame, shops, existingShop, last>>

\* Seller.handleSubmit without editingProduct: products.create
CreateProduct(s, filled, price, stock) ==
    /\ pc[s] = "idle" /\ page[s] = "seller"
    /\ Len(products) < MaxProducts
    /\ IF ~filled
       THEN /\ last' = Done("handleSubmit", "fill_required_fields")
            /\ UNCHANGED products
       ELSE \E ok \in BOOLEAN :
              IF ok
              THEN /\ products' = Append(products,
                                     [price |-> price, stock |-> stock,
                                      shop_id |-> ShopOf(Len(products) + 1),
                                      seller_id |-> account[s]])
                   /\ last' = Done("handleSubmit", "product_created")
              ELSE /\ last' = Done("handleSubmit", "failed")
                   /\ UNCHANGED products
    /\ UNCHANGED <<cart_items, nextCartId, orders, order_items, edits, sessVars,
                   histVars, reviewVars, communityVars>>

RegisterNext ==
    \/ \E s \in Sessions : OpenSellerRegister(s)
    \/ \E s \in Sessions, filled \in BOOLEAN : SubmitSellerRegister(s, filled)
    \/ \E s \in Sessions : OpenSellerRegisterAlt(s)
    \/ \E s \in Sessions, filled \in BOOLEAN : SubmitSellerRegisterAlt(s, filled)
    \/ \E s \in Sessions : OpenSellerRegisterV2(s)
    \/ \E s \in Sessions, filled \in BOOLEAN : SubmitSellerRegisterV2(s, filled)
    \/ \E s \in Sessions : OpenSeller(s)
    \/ \E s \in Sessions, filled \in BOOLEAN, price \in {5},
          stock \in 1..MaxStock : CreateProduct(s, filled, price, stock)
    \/ \E s \in Sessions, id \in ShopIds, decision \in {"approve", "reject"} :
         DirectReview(s, id, decision, FALSE)

\* no shop and no product yet; the second tab belongs to the account u1 too,
\* or to the inspector u2
RegisterInit ==
    /\ products = <<>>
    /\ cart_items = {}
    /\ nextCartId = 1
    /\ orders = <<>>
    /\ order_items = <<>>
    /\ edits = 0
    /\ account \in {[s \in Sessions |-> "u1"],
                    [s \in Sessions |-> IF s = "s1" THEN "u1" ELSE "u2"]}
    /\ page = [s \in Sessions |-> "home"]
    /\ user = [s \in Sessions |-> NoUser]
    /\ cartItems = [s \in Sessions |-> <<>>]
    /\ pc = [s \in Sessions |-> "idle"]
    /\ addProd = [s \in Sessions |-> 0]
    /\ addFound = [s \in Sessions |-> NoRow]
    /\ coOrder = [s \in Sessions |-> 0]
    /\ coIdx = [s \in Sessions |-> 0]
    /\ coFailed = [s \in Sessions |-> FALSE]
    /\ last = Done("none", "none")
    /\ orderInfo = <<>>
    /\ clean = [u \in Users |-> [p \in ProductIds |-> 0]]
    /\ shops_v2 = {}
    /\ posts_v2 = {}
    /\ inspectors = {"u2"}
    /\ dash = [s \in Sessions |-> DashInit]
    /\ resp = NoRequest
    /\ CommunityInit

RegisterSpec == RegisterInit /\ [][RegisterNext]_vars

\* ------------------------------------------ leveling backend (user_system)
\* the award table that also pays for an eligibility check
award_PaysCheck(actionType) ==
    CASE actionType = "post_daily" -> 5
      [] actionType = "post_help" -> 5
      [] actionType = "comment" -> 2
      [] OTHER -> 5

\* the experience an action is worth; nothing for a request that is no award
award(actionType) ==
    CASE actionType = "post_daily" -> 5
      [] actionType = "post_help" -> 5
      [] actionType = "comment" -> 2
      [] actionType = "like" -> 1
      [] OTHER -> 0

\* the level that starts again in every band of 100 experience
level_Remainder(experience) == ((experience % 100) \div 50) + 1

\* one level per band of 100 experience, starting at level 1
level(experience) == (experience \div 100) + 1

DefaultProfile == [experience |-> 0, level |-> 1, points |-> 0]

\* GET /api/v1/user_system/profile: the profile, created on first access
ProfileOf(u) == IF user_profile[u] = NoProfile THEN DefaultProfile
                ELSE user_profile[u]

\* the award that adds the experience and keeps the level
awardExperience_KeepsLevel(profile, actionType) ==
    [profile EXCEPT !.experience = profile.experience + award(actionType)]

\* POST /api/v1/user_system/experience with an award action
awardExperience(profile, actionType) ==
    [profile EXCEPT !.experience = profile.experience + award(actionType),
                    !.level = level(profile.experience + award(actionType))]

\* ------------------------------------------- inspector eligibility backend
\* the fixed thresholds of the backend; the client only displays them
REQUIRED_LEVEL == 2
REQUIRED_POINTS == 10

\* the predicate that is satisfied by either threshold
checkEligibility_Either(profile) ==
    [eligible |-> profile.level >= REQUIRED_LEVEL \/ profile.points >= REQUIRED_POINTS,
     required_level |-> REQUIRED_LEVEL, required_points |-> REQUIRED_POINTS]

\* checkEligibility: the answer of both eligibility routes
checkEligibility(profile) ==
    [eligible |-> profile.level >= REQUIRED_LEVEL /\ profile.points >= REQUIRED_POINTS,
     required_level |-> REQUIRED_LEVEL, required_points |-> REQUIRED_POINTS]

\* the apply endpoint that believes the request body
applyForInspector_TrustClaim(u, claimed) ==
    IF claimed \/ checkEligibility(ProfileOf(u)).eligible THEN "ok"
    ELSE "PermissionDenied"

\* POST /api/v1/inspectors/apply by the account u: its answer. `claimed` is
\* what the request body asserts about the caller's eligibility.
applyForInspector(u, claimed) ==
    IF checkEligibility(ProfileOf(u)).eligible THEN "ok" ELSE "PermissionDenied"

\* the inspector flags after the endpoint has served the request
Granted(u, claimed) ==
    IF applyForInspector(u, claimed) = "ok" THEN inspectors \cup {u} ELSE inspectors

Applied(u, claimed) ==
    [user |-> u, claimed |-> claimed, profile |-> ProfileOf(u),
     result |-> applyForInspector(u, claimed)]

\* the eligibility check the backend serves for the account u on a route,
\* reading the profile it finds
Checked(u, via, profile) ==
    [user |-> u, via |-> via, profile |-> profile,
     answer |-> checkEligibility(profile)]

\* ------------------------------------------------------- ProfileV2 page
profileFrame == <<storeVars, account, user, cartItems, pc, addProd, addFound,
                  coOrder, coIdx, coFailed, histVars, shops_v2, posts_v2, dash,
                  resp, shops, existingShop, social, awards, feedVars>>

\* ProfileV2 mounts: checkAuth, then loadUserProfile with its three requests
\* (profile, eligibility through the experience endpoint, inspectors/me);
\* calls = how many of them succeed before one fails
OpenProfile(s) ==
    /\ pc[s] = "idle"
    /\ LET u == account[s] IN
       \E okMe \in BOOLEAN, calls \in 0..3 :
         IF ~okMe
         THEN /\ page' = [page EXCEPT ![s] = "home"]
              /\ profileView' = [profileView EXCEPT ![s] = ProfileInit]
              /\ last' = Done("checkAuth", "login_required")
              /\ UNCHANGED <<user_profile, check>>
         ELSE /\ page' = [page EXCEPT ![s] = "profile"]
              /\ last' = Done("checkAuth", "none")
              /\ user_profile' =
                   IF calls = 0 THEN user_profile
                   ELSE IF calls = 1
                   THEN [user_profile EXCEPT ![u] = ProfileOf(u)]
                   ELSE [user_profile EXCEPT ![u] =
                           awardExperience(ProfileOf(u), "check_inspector")]
              /\ check' = IF calls >= 2 THEN Checked(u, "experience", ProfileOf(u))
                          ELSE check
              /\ profileView' = [profileView EXCEPT ![s] =
                   [userProfile |-> IF calls >= 1 THEN ProfileOf(u) ELSE NoProfile,
                    inspectorEligibility |->
                      IF calls >= 2 THEN checkEligibility(ProfileOf(u))
                      ELSE NoEligibility,
                    isInspector |-> calls = 3 /\ IsInspector(u)]]
    /\ UNCHANGED <<profileFrame, inspectors, grant>>

\* the ProfileV2 of InspectorDashboard.tsx mounts: loadUserProfile, then
\* checkInspectorStatus on the eligibility route
OpenProfileV2(s) ==
    /\ pc[s] = "idle"
    /\ LET u == account[s] IN
       \E okMe \in BOOLEAN, okProfile \in BOOLEAN, okCheck \in BOOLEAN :
         IF ~okMe
         THEN /\ page' = [page EXCEPT ![s] = "home"]
              /\ profileView' = [profileView EXCEPT ![s] = ProfileInit]
              /\ last' = Done("checkAuth", "login_required")
              /\ UNCHANGED <<user_profile, check>>
         ELSE /\ page' = [page EXCEPT ![s] = "profile_v2"]
              /\ last' = Done("checkAuth", "none")
              /\ user_profile' = IF okProfile
                                 THEN [user_profile EXCEPT ![u] = ProfileOf(u)]
                                 ELSE user_profile
              /\ check' = IF okCheck
                          THEN Checked(u, "eligibility", user_profile'[u])
                          ELSE check
              /\ profileView' = [profileView EXCEPT ![s] =
                   [userProfile |-> IF okProfile THEN ProfileOf(u) ELSE NoProfile,
                    inspectorEligibility |->
                      IF okCheck THEN checkEligibility(user_profile'[u])
                      ELSE NoEligibility,
                    isInspector |-> FALSE]]
    /\ UNCHANGED <<profileFrame, inspectors, grant>>

\* handleApplyInspector: the button shown to an account the page found
\* eligible and not yet an inspector
HandleApplyInspector(s) ==
    /\ pc[s] = "idle" /\ page[s] = "profile"
    /\ profileView[s].inspectorEligibility.eligible
    /\ ~profileView[s].isInspector
    /\ \E okCall \in BOOLEAN :
         IF ~okCall
         THEN /\ last' = Done("handleApplyInspector", "apply_failed")
              /\ UNCHANGED <<inspectors, grant, profileView>>
         ELSE /\ inspectors' = Granted(account[s], FALSE)
              /\ grant' = Applied(account[s], FALSE)
              /\ IF grant'.result = "ok"
                 THEN /\ profileView' = [profileView EXCEPT ![s].isInspector = TRUE]
                      /\ last' = Done("handleApplyInspector", "granted")
                 ELSE /\ last' = Done("handleApplyInspector", "apply_failed")
                      /\ UNCHANGED profileView
    /\ UNCHANGED <<profileFrame, page, user_profile, check>>

\* a client other than the profile page posts to the apply endpoint
DirectApply(s, claimed) ==
    /\ inspectors' = Granted(account[s], claimed)
    /\ grant' = Applied(account[s], claimed)
    /\ UNCHANGED <<profileFrame, page, last, user_profile, check, profileView>>

\* a SocialV2 handler of the session posts an award to the experience endpoint
DirectAward(s, actionType) ==
    /\ awards < MaxAwards
    /\ awards' = awards + 1
    /\ user_profile' = [user_profile EXCEPT ![account[s]] =
                          awardExperience(ProfileOf(account[s]), actionType)]
    /\ UNCHANGED <<storeVars, account, user, cartItems, pc, addProd, addFound,
                   coOrder, coIdx, coFailed, histVars, shops_v2, posts_v2, dash,
                   resp, shops, existingShop, social, page, last, inspectors,
                   check, grant, profileView, feedVars>>

ProfileNext ==
    \/ \E s \in Sessions : OpenProfile(s)
    \/ \E s \in Sessions : OpenProfileV2(s)
    \/ \E s \in Sessions : HandleApplyInspector(s)
    \/ \E s \in Sessions, claimed \in BOOLEAN : DirectApply(s, claimed)
    \/ \E s \in Sessions, actionType \in {"post_daily", "comment"} :
         DirectAward(s, actionType)

\* the profiles an account can have earned before
InitProfiles ==
    {NoProfile} \cup
    {[experience |-> e, level |-> level(e), points |-> q] :
       e \in {95, 100}, q \in {0, REQUIRED_POINTS}}

\* nobody is an inspector yet; a tab of the account u1 and a tab of the new
\* account u2
ProfileSpecInit ==
    /\ products = [p \in ProductIds |->
                     [price |-> IF p = 1 THEN 10 ELSE 5, stock |-> 1,
                      shop_id |-> ShopOf(p), seller_id |-> "u2"]]
    /\ cart_items = {}
    /\ nextCartId = 1
    /\ orders = <<>>
    /\ order_items = <<>>
    /\ edits = 0
    /\ account = [s \in Sessions |-> IF s = "s1" THEN "u1" ELSE "u2"]
    /\ page = [s \in Sessions |-> "home"]
    /\ user = [s \in Sessions |-> NoUser]
    /\ cartItems = [s \in Sessions |-> <<>>]
    /\ pc = [s \in Sessions |-> "idle"]
    /\ addProd = [s \in Sessions |-> 0]
    /\ addFound = [s \in Sessions |-> NoRow]
    /\ coOrder = [s \in Sessions |-> 0]
    /\ coIdx = [s \in Sessions |-> 0]
    /\ coFailed = [s \in Sessions |-> FALSE]
    /\ last = Done("none", "none")
    /\ orderInfo = <<>>
    /\ clean = [u \in Users |-> [p \in ProductIds |-> 0]]
    /\ shops_v2 = {}
    /\ posts_v2 = {}
    /\ inspectors = {}
    /\ dash = [s \in Sessions |-> DashInit]
    /\ resp = NoRequest
    /\ shops = {}
    /\ existingShop = [s \in Sessions |-> NoShop]
    /\ social = [s \in Sessions |-> SocialInit]
    /\ \E pr \in InitProfiles :
         user_profile = [u \in Users |-> IF u = "u1" THEN pr ELSE NoProfile]
    /\ profileView = [s \in Sessions |-> ProfileInit]
    /\ check = NoCheck
    /\ grant = NoGrant
    /\ awards = 0
    /\ comments = {}
    /\ likes = 0

ProfileSpec == ProfileSpecInit /\ [][ProfileNext]_vars

\* ------------------------------------------------------- SocialV2 page
RECURSIVE Descending(_)
Descending(S) ==
    IF S = {} THEN <<>>
    ELSE LET m == CHOOSE x \in S : \A y \in S : x.id >= y.id
         IN <<m>> \o Descending(S \ {m})

\* the listing that shows every post of the tab, whatever its review_status
loadPosts_NoStatusFilter(prev, rows, tab, ok) ==
    IF ok THEN Descending({r \in rows : r.post_type = tab}) ELSE prev

\* loadPosts: posts_v2.queryAll of the tab's approved posts, newest first;
\* a failed query keeps the list
loadPosts(prev, rows, tab, ok) ==
    IF ok
    THEN Descending({r \in rows : r.post_type = tab /\ r.review_status = "approved"})
    ELSE prev

socialFrame == <<storeVars, account, cartItems, pc, addProd, addFound, coOrder,
                 coIdx, coFailed, histVars, shops_v2, inspectors, dash, resp,
                 shops, existingShop, profileView, check, grant, awards>>

\* SocialV2 mounts: checkAuth with loadUserProfile, and loadPosts
OpenSocial(s) ==
    /\ pc[s] = "idle"
    /\ page' = [page EXCEPT ![s] = "social"]
    /\ \E okMe \in BOOLEAN, okProfile \in BOOLEAN, okPosts \in BOOLEAN :
         /\ user' = [user EXCEPT ![s] = IF okMe THEN account[s] ELSE NoUser]
         /\ user_profile' =
              IF okMe /\ okProfile
              THEN [user_profile EXCEPT ![account[s]] = ProfileOf(account[s])]
              ELSE user_profile
         /\ social' = [social EXCEPT ![s] =
                         [activeTab |-> "daily",
                          posts |-> loadPosts(<<>>, posts_v2, "daily", okPosts)]]
    /\ UNCHANGED <<socialFrame, feedVars, posts_v2, last>>

\* setActiveTab, and the loadPosts its effect runs
SetActiveTab(s, tab) ==
    /\ pc[s] = "idle" /\ page[s] = "social"
    /\ social[s].activeTab # tab
    /\ \E okPosts \in BOOLEAN :
         social' = [social EXCEPT ![s] =
                      [activeTab |-> tab,
                       posts |-> loadPosts(social[s].posts, posts_v2, tab, okPosts)]]
    /\ UNCHANGED <<socialFrame, feedVars, posts_v2, last, page, user, user_profile>>

\* the review_status that sends every new post to the reviewers
reviewStatus_AlwaysPending(postType) == "pending"

\* handleCreatePost: the review_status of the post it creates
reviewStatus(postType) == IF postType = "daily" THEN "approved" ELSE "pending"

\* the row the store adds for handleCreatePost's postData
NewPost(u, postType, rewardPoints) ==
    [id |-> Cardinality(posts_v2) + 1, user_id |-> u, post_type |-> postType,
     review_status |-> reviewStatus(postType),
     reward_points |-> IF postType = "help" THEN rewardPoints ELSE 0,
     is_solved |-> FALSE, solver_id |-> NoUser, likes_count |-> 0,
     comments_count |-> 0]

\* handleCreatePost; filled = newPost.trim() is not empty
HandleCreatePost(s, filled, postType, rewardPoints) ==
    /\ pc[s] = "idle" /\ page[s] = "social"
    /\ Cardinality(posts_v2) < MaxPosts
    /\ IF user[s] = NoUser
       THEN /\ last' = Done("handleCreatePost", "login_required")
            /\ UNCHANGED <<posts_v2, user_profile, social>>
       ELSE IF ~filled
       THEN /\ last' = Done("handleCreatePost", "enter_content")
            /\ UNCHANGED <<posts_v2, user_profile, social>>
       ELSE IF postType = "help" /\ rewardPoints < 5
       THEN /\ last' = Done("handleCreatePost", "reward_below_5")
            /\ UNCHANGED <<posts_v2, user_profile, social>>
       ELSE \E okCreate \in BOOLEAN, okAward \in BOOLEAN, okPosts \in BOOLEAN :
              IF ~okCreate
              THEN /\ last' = Done("handleCreatePost", "publish_failed")
                   /\ UNCHANGED <<posts_v2, user_profile, social>>
              ELSE /\ posts_v2' = posts_v2 \cup
                                    {NewPost(account[s], postType, rewardPoints)}
                   /\ IF ~okAward
                      THEN /\ last' = Done("handleCreatePost", "publish_failed")
                           /\ UNCHANGED <<user_profile, social>>
                      ELSE /\ user_profile' =
                                [user_profile EXCEPT ![account[s]] =
                                   awardExperience(ProfileOf(account[s]),
                                      IF postType = "daily" THEN "post_daily"
                                      ELSE "post_help")]
                           /\ last' = Done("handleCreatePost",
                                           IF postType = "daily" THEN "published"
                                           ELSE "submitted_for_review")
                           /\ social' =
                                IF postType = "daily"
                                THEN [social EXCEPT ![s].posts =
                                        loadPosts(social[s].posts, posts_v2',
                                                  social[s].activeTab, okPosts)]
                                ELSE social
    /\ UNCHANGED <<socialFrame, feedVars, page, user>>

\* the post-review endpoint of the backend: its answer to the account u
ReviewPostResult(u, id) ==
    IF ~IsInspector(u) THEN "Forbidden"
    ELSE IF ~\E r \in posts_v2 : r.id = id THEN "NotFound"
    ELSE IF (CHOOSE r \in posts_v2 : r.id = id).review_status # "pending"
    THEN "InvalidState"
    ELSE "ok"

\* a client posts to the post-review endpoint
DirectReviewPost(s, id, decision) ==
    /\ posts_v2' =
         IF ReviewPostResult(account[s], id) = "ok"
         THEN {IF r.id = id
               THEN [r EXCEPT !.review_status =
                       IF decision = "approve" THEN "approved" ELSE "rejected"]
               ELSE r : r \in posts_v2}
         ELSE posts_v2
    /\ last' = Done("reviewPost", ReviewPostResult(account[s], id))
    /\ UNCHANGED <<socialFrame, feedVars, page, user, user_profile, social>>

SocialNext ==
    \/ \E s \in Sessions : OpenSocial(s)
    \/ \E s \in Sessions, tab \in {"daily", "help"} : SetActiveTab(s, tab)
    \/ \E s \in Sessions, filled \in BOOLEAN, postType \in {"daily", "help"},
          rewardPoints \in {4, 10} :
         HandleCreatePost(s, filled, postType, rewardPoints)
    \/ \E s \in Sessions, id \in 1..MaxPosts, decision \in {"approve", "reject"} :
         DirectReviewPost(s, id, decision)

\* no post yet; a tab of the account u1 and a tab of the inspector u2
SocialSpecInit ==
    /\ products = [p \in ProductIds |->
                     [price |-> IF p = 1 THEN 10 ELSE 5, stock |-> 1,
                      shop_id |-> ShopOf(p), seller_id |-> "u2"]]
    /\ cart_items = {}
    /\ nextCartId = 1
    /\ orders = <<>>
    /\ order_items = <<>>
    /\ edits = 0
    /\ account = [s \in Sessions |-> IF s = "s1" THEN "u1" ELSE "u2"]
    /\ page = [s \in Sessions |-> "home"]
    /\ user = [s \in Sessions |-> NoUser]
    /\ cartItems = [s \in Sessions |-> <<>>]
    /\ pc = [s \in Sessions |-> "idle"]
    /\ addProd = [s \in Sessions |-> 0]
    /\ addFound = [s \in Sessions |-> NoRow]
    /\ coOrder = [s \in Sessions |-> 0]
    /\ coIdx = [s \in Sessions |-> 0]
    /\ coFailed = [s \in Sessions |-> FALSE]
    /\ last = Done("none", "none")
    /\ orderInfo = <<>>
    /\ clean = [u \in Users |-> [p \in ProductIds |-> 0]]
    /\ shops_v2 = {}
    /\ posts_v2 = {}
    /\ inspectors = {"u2"}
    /\ dash = [s \in Sessions |-> DashInit]
    /\ resp = NoRequest
    /\ CommunityInit

SocialSpec == SocialSpecInit /\ [][SocialNext]_vars

\* ------------------------------------- SocialV2 page: likes and comments
\* the row of the page's `posts` with the id, or none: posts.find
FindPost(list, id) == {list[i] : i \in {k \in DOMAIN list : list[k].id = id}}

ListedIds(list) == {list[i].id : i \in DOMAIN list}

\* posts_v2.update({ id, data: { likes_count } })
UpdateLikes(id, n) ==
    {IF r.id = id THEN [r EXCEPT !.likes_count = n] ELSE r : r \in posts_v2}

\* posts_v2.update({ id, data: { comments_count } })
UpdateComments(id, n) ==
    {IF r.id = id THEN [r EXCEPT !.comments_count = n] ELSE r : r \in posts_v2}

\* posts_v2.update({ id, data: { is_solved: true, solver_id } })
UpdateSolved(id, solverId) ==
    {IF r.id = id THEN [r EXCEPT !.is_solved = TRUE, !.solver_id = solverId]
     ELSE r : r \in posts_v2}

\* comments.create({ data: { post_id } }) by the account u
NewComment(u, postId) ==
    [id |-> Cardinality(comments) + 1, post_id |-> postId, user_id |-> u]

\* the handler that posts its award whether or not its write succeeded
awardPosted_Regardless(okWrite, okAward) == okAward

\* a handler awaits its store writes before it posts the award in the same
\* try block: the award is applied if the writes and the request succeeded
awardPosted(okWrite, okAward) == okWrite /\ okAward

Awarded(u, actionType) ==
    [user_profile EXCEPT ![u] = awardExperience(ProfileOf(u), actionType)]

\* handleLike(post.id, post.likes_count) from the like button of a listed post
HandleLike(s, postId) ==
    /\ pc[s] = "idle" /\ page[s] = "social"
    /\ postId \in ListedIds(social[s].posts)
    /\ likes < MaxLikes
    /\ IF user[s] = NoUser
       THEN /\ last' = Done("handleLike", "login_required")
            /\ UNCHANGED <<posts_v2, likes, user_profile, social>>
       ELSE \E okUpdate \in BOOLEAN, okAward \in BOOLEAN, okPosts \in BOOLEAN :
              LET currentLikes ==
                    (CHOOSE r \in FindPost(social[s].posts, postId) : TRUE).likes_count
                  done == awardPosted(okUpdate, okAward)
              IN /\ posts_v2' = IF okUpdate
                                THEN UpdateLikes(postId, currentLikes + 1)
                                ELSE posts_v2
                 /\ likes' = IF okUpdate THEN likes + 1 ELSE likes
                 /\ user_profile' = IF done THEN Awarded(account[s], "like")
                                    ELSE user_profile
                 /\ social' =
                      IF done
                      THEN [social EXCEPT ![s].posts =
                              loadPosts(social[s].posts, posts_v2',
                                        social[s].activeTab, okPosts)]
                      ELSE social
                 /\ last' = Done("handleLike",
                                 IF done THEN "liked" ELSE "like_failed")
    /\ UNCHANGED <<socialFrame, page, user, comments>>

\* handleComment(post.id) from the comment box of a listed post; filled =
\* newComment.trim() is not empty.  The comment list of the page, which no
\* handler reads, is left out.
HandleComment(s, postId, filled) ==
    /\ pc[s] = "idle" /\ page[s] = "social"
    /\ postId \in ListedIds(social[s].posts)
    /\ Cardinality(comments) < MaxComments
    /\ IF user[s] = NoUser
       THEN /\ last' = Done("handleComment", "login_required")
            /\ UNCHANGED <<posts_v2, comments, user_profile, social>>
       ELSE IF ~filled
       THEN /\ last' = Done("handleComment", "enter_comment")
            /\ UNCHANGED <<posts_v2, comments, user_profile, social>>
       ELSE \E okCreate \in BOOLEAN, okUpdate \in BOOLEAN, okAward \in BOOLEAN,
               okPosts \in BOOLEAN :
              LET post == CHOOSE r \in FindPost(social[s].posts, postId) : TRUE
                  done == awardPosted(okCreate /\ okUpdate, okAward)
              IN /\ comments' = IF okCreate
                                THEN comments \cup {NewComment(account[s], postId)}
                                ELSE comments
                 /\ posts_v2' = IF okCreate /\ okUpdate
                                THEN UpdateComments(postId, post.comments_count + 1)
                                ELSE posts_v2
                 /\ user_profile' = IF done THEN Awarded(account[s], "comment")
                                    ELSE user_profile
                 /\ social' =
                      IF done
                      THEN [social EXCEPT ![s].posts =
                              loadPosts(social[s].posts, posts_v2',
                                        social[s].activeTab, okPosts)]
                      ELSE social
                 /\ last' = Done("handleComment",
                                 IF done THEN "commented" ELSE "comment_failed")
    /\ UNCHANGED <<socialFrame, page, user, likes>>

\* the check that lets every logged-in user mark a listed post
mayMarkSolved_AnyUser(posts, postId, u) == FindPost(posts, postId) # {}

\* markAsSolved: the post is in the page's list and its author is the user
mayMarkSolved(posts, postId, u) ==
    \E post \in FindPost(posts, postId) : post.user_id = u

\* markAsSolved(postId, solverId)
MarkAsSolved(s, postId, solverId) ==
    /\ pc[s] = "idle" /\ page[s] = "social"
    /\ IF user[s] = NoUser
       THEN /\ last' = Done("markAsSolved", "returned")
            /\ UNCHANGED <<posts_v2, social>>
       ELSE IF ~mayMarkSolved(social[s].posts, postId, user[s])
       THEN /\ last' = Done("markAsSolved", "not_allowed")
            /\ UNCHANGED <<posts_v2, social>>
       ELSE \E okUpdate \in BOOLEAN, okPosts \in BOOLEAN :
              IF okUpdate
              THEN /\ posts_v2' = UpdateSolved(postId, solverId)
                   /\ social' = [social EXCEPT ![s].posts =
                                   loadPosts(social[s].posts, posts_v2',
                                             social[s].activeTab, okPosts)]
                   /\ last' = Done("markAsSolved", "marked_solved")
              ELSE /\ last' = Done("markAsSolved", "operation_failed")
                   /\ UNCHANGED <<posts_v2, social>>
    /\ UNCHANGED <<socialFrame, feedVars, page, user, user_profile>>

\* the page's mount and its tabs
FeedNext ==
    \/ \E s \in Sessions : OpenSocial(s)
    \/ \E s \in Sessions, tab \in {"daily", "help"} : SetActiveTab(s, tab)

\* the feed with its like buttons
LikeNext ==
    \/ FeedNext
    \/ \E s \in Sessions, postId \in PostIds : HandleLike(s, postId)

\* the feed with its comment boxes
CommentNext ==
    \/ FeedNext
    \/ \E s \in Sessions, postId \in PostIds, filled \in BOOLEAN :
         HandleComment(s, postId, filled)

\* the feed with markAsSolved
SolveNext ==
    \/ FeedNext
    \/ \E s \in Sessions, postId \in PostIds, solverId \in Users :
         MarkAsSolved(s, postId, solverId)

\* the help post of the account u2 after its approval
ApprovedHelpPosts ==
    {[r EXCEPT !.review_status = "approved"] : r \in PendingHelpPosts}

\* the approved help post of u2 and nothing else in the feed; the account u1
\* has earned 95 experience; a tab of u1 and a tab of u2
FeedInit ==
    /\ products = [p \in ProductIds |->
                     [price |-> IF p = 1 THEN 10 ELSE 5, stock |-> 1,
                      shop_id |-> ShopOf(p), seller_id |-> "u2"]]
    /\ cart_items = {}
    /\ nextCartId = 1
    /\ orders = <<>>
    /\ order_items = <<>>
    /\ edits = 0
    /\ account = [s \in Sessions |-> IF s = "s1" THEN "u1" ELSE "u2"]
    /\ page = [s \in Sessions |-> "home"]
    /\ user = [s \in Sessions |-> NoUser]
    /\ cartItems = [s \in Sessions |-> <<>>]
    /\ pc = [s \in Sessions |-> "idle"]
    /\ addProd = [s \in Sessions |-> 0]
    /\ addFound = [s \in Sessions |-> NoRow]
    /\ coOrder = [s \in Sessions |-> 0]
    /\ coIdx = [s \in Sessions |-> 0]
    /\ coFailed = [s \in Sessions |-> FALSE]
    /\ last = Done("none", "none")
    /\ orderInfo = <<>>
    /\ clean = [u \in Users |-> [p \in ProductIds |-> 0]]
    /\ shops_v2 = {}
    /\ posts_v2 = ApprovedHelpPosts
    /\ inspectors = {}
    /\ dash = [s \in Sessions |-> DashInit]
    /\ resp = NoRequest
    /\ shops = {}
    /\ existingShop = [s \in Sessions |-> NoShop]
    /\ social = [s \in Sessions |-> SocialInit]
    /\ user_profile = [u \in Users |->
                         IF u = "u1"
                         THEN [experience |-> 95, level |-> level(95), points |-> 0]
                         ELSE NoProfile]
    /\ profileView = [s \in Sessions |-> ProfileInit]
    /\ check = NoCheck
    /\ grant = NoGrant
    /\ awards = 0
    /\ comments = {}
    /\ likes = 0

\* one tab of the account u1 that posts, likes and comments
AwardNext ==
    \/ OpenSocial("s1")
    \/ \E tab \in {"daily", "help"} : SetActiveTab("s1", tab)
    \/ \E filled \in BOOLEAN, postType \in {"daily", "help"},
          rewardPoints \in {4, 10} :
         HandleCreatePost("s1", filled, postType, rewardPoints)
    \/ \E postId \in PostIds : HandleLike("s1", postId)
    \/ \E postId \in PostIds, filled \in BOOLEAN :
         HandleComment("s1", postId, filled)

AwardSpec == FeedInit /\ [][AwardNext]_vars

LikeSpec == FeedInit /\ [][LikeNext]_vars

CommentSpec == FeedInit /\ [][CommentNext]_vars

SolveSpec == FeedInit /\ [][SolveNext]_vars

\* ----------------------------------------------------------------- claims
RECURSIVE SumOver(_, _)
SumOver(f, S) ==
    IF S = {} THEN 0
    ELSE LET x == CHOOSE y \in S : TRUE IN f[x] + SumOver(f, S \ {x})

LineAmounts(lines) ==
    [i \in DOMAIN lines |-> lines[i].product.price * lines[i].quantity]

PriceQty(lines) ==
    [i \in DOMAIN lines |-> <<lines[i].product.price, lines[i].quantity>>]

ExampleCart == << <<10, 2>>, <<5, 3>> >>

\* C1: the total_amount of every order checkout creates is the sum of
\* product.price x quantity over the cart lines that checkout included; for
\* the lines (price 10, quantity 2), (price 5, quantity 3) it is 35.
C1_Total ==
    \A o \in DOMAIN orders :
      LET lines == orderInfo[o].lines IN
        /\ orders[o].total_amount = SumOver(LineAmounts(lines), DOMAIN lines)
        /\ PriceQty(lines) = ExampleCart => orders[o].total_amount = 35

C1_Witness ==
    \E o \in DOMAIN orders :
      /\ PriceQty(orderInfo[o].lines) = ExampleCart
      /\ orders[o].total_amount = 35

OrderItemsOf(o) == SelectSeq(order_items, LAMBDA it : it.order_id = o)

\* C2: a checkout that succeeds has created exactly one OrderItem per cart
\* line, with the line's product_id and quantity, and every OrderItem carries
\* the price its product had when that checkout was invoked.
C2_PriceAtPurchase ==
    /\ \A k \in DOMAIN order_items :
         order_items[k].price =
           orderInfo[order_items[k].order_id].prices[order_items[k].product_id]
    /\ \A o \in DOMAIN orders :
         orderInfo[o].outcome = "ok" =>
           [k \in DOMAIN OrderItemsOf(o) |->
              <<OrderItemsOf(o)[k].product_id, OrderItemsOf(o)[k].quantity>>]
           = [i \in DOMAIN orderInfo[o].lines |->
                <<orderInfo[o].lines[i].product_id, orderInfo[o].lines[i].quantity>>]

\* C3: when a checkout reports success, the account that checked out has no
\* cart_items row left in the store.
C3_CartEmptyAfterSuccess ==
    [][\A o \in DOMAIN orderInfo :
         (orderInfo[o].outcome = "running" /\ orderInfo'[o].outcome = "ok")
           => RowsOf(cart_items', orders[o].user_id) = {}]_vars

\* C4: after a checkout that failed part-way (its Order was created, an
\* order-item creation or a cart deletion failed), no later checkout creates
\* another Order for any of the same cart items.
C4_NoSecondOrder ==
    \A o1, o2 \in DOMAIN orders :
      (o1 < o2 /\ orderInfo[o1].outcome = "failed")
        => ItemIds(orderInfo[o1].lines) \cap ItemIds(orderInfo[o2].lines) = {}

\* C5: no Order is created by a checkout invoked while the account has no
\* cart_items row in the store.
C5_NoOrderFromEmptyCart ==
    [][Len(orders') > Len(orders)
         => RowsOf(cart_items, orders'[Len(orders')].user_id) # {}]_vars

\* C6: after n addToCart(p) calls of an account that succeeded one after the
\* other, starting with no row for the product and with no other write to the
\* product's rows, the account has exactly one row for p and its quantity
\* is n; two calls leave one row with quantity 2.
C6_OneRowQuantityN ==
    \A u \in Users, p \in ProductIds :
      clean[u][p] >= 1 =>
        \E r \in cart_items :
          /\ ProductRows(u, p) = {r}
          /\ r.quantity = clean[u][p]

C6_Witness ==
    /\ clean["u1"][1] = 2
    /\ \E r \in cart_items : ProductRows("u1", 1) = {r} /\ r.quantity = 2

\* C7: there is at most one cart_items row per (user, product).
C7_OneRowPerProduct ==
    \A u \in Users, p \in ProductIds : Cardinality(ProductRows(u, p)) <= 1

\* C8: no cart_items row has a quantity above its product's stock.
C8_QuantityWithinStock ==
    \A r \in cart_items : r.quantity <= products[r.product_id].stock

C10_Forbidden ==
    [][resp' # resp =>
         (~IsInspector(resp'.user) =>
            /\ resp'.result = "Forbidden"
            /\ shops_v2' = shops_v2)]_vars

C10_Witness ==
    /\ ~IsInspector(resp.user)
    /\ resp.claimed
    /\ resp.result = "Forbidden"
    /\ ShopStatus(resp.shop) = "pending"

\* C11: a shop row that is no longer pending never changes again (it is
\* reviewed at most once and never returns to pending), and a review request
\* of an inspector for a shop that is already approved or rejected is answered
\* InvalidState, also when it comes from a dashboard with a stale task list.
C11_ReviewedOnce ==
    [][/\ \A r \in shops_v2 : r.status # "pending" => r \in shops_v2'
       /\ (resp' # resp /\ IsInspector(resp'.user)
             /\ ShopStatus(resp'.shop) \in {"approved", "rejected"})
            => resp'.result = "InvalidState"]_vars

C11_Witness ==
    /\ resp.result = "InvalidState"
    /\ resp.user = "u2"
    /\ last = Done("handleReview", "review_failed")
    /\ dash["s2"].isReviewDialogOpen
    /\ dash["s2"].selectedItem = [id |-> resp.shop, itemType |-> "shop"]
    /\ resp.shop \in ItemsOf(dash["s2"].pendingShops)
    /\ ShopStatus(resp.shop) \in {"approved", "rejected"}

ShopRowIds(S) == {r.id : r \in S}

\* C12: every shop row a registration creates has status pending, and a shop
\* row becomes approved or active only in the step in which the backend
\* answers ok to an inspector's approve review of that shop.
C12_StartsPending ==
    [][/\ \A r \in shops' \ shops : r.status = "pending"
       /\ \A r \in shops_v2' :
            r.id \notin ShopRowIds(shops_v2) => r.status = "pending"
       /\ \A r \in shops_v2' :
            (r.status \in {"approved", "active"}
               /\ ShopStatus(r.id) \notin {"approved", "active"})
              => /\ resp' = [resp' EXCEPT !.shop = r.id, !.decision = "approve",
                                          !.result = "ok"]
                 /\ IsInspector(resp'.user)]_vars

\* C13: every account owns at most one shop row in a shop collection.
C13_OneShopPerUser ==
    \A u \in Users :
      /\ Cardinality(OwnShops(shops, u)) <= 1
      /\ Cardinality(OwnShops(shops_v2, u)) <= 1

\* C14: a product is created only by an account that owns a shop the
\* inspectors have approved.
C14_ProductNeedsApprovedShop ==
    [][Len(products') > Len(products)
         => \E r \in shops_v2 :
              /\ r.user_id = products'[Len(products')].seller_id
              /\ r.status \in {"approved", "active"}]_vars

PostRowIds(S) == {r.id : r \in S}

\* C15: every post is created with review_status approved if it is a daily
\* post and pending if it is a help post, and no daily post is ever pending.
C15_DailyNeverPending ==
    /\ [](\A r \in posts_v2 : r.post_type = "daily" => r.review_status # "pending")
    /\ [][\A r \in posts_v2' :
            r.id \notin PostRowIds(posts_v2)
              => r.review_status = IF r.post_type = "daily" THEN "approved"
                                   ELSE "pending"]_vars

C15_Witness ==
    /\ \E r \in posts_v2 : r.post_type = "daily" /\ r.review_status = "approved"
    /\ \E r \in posts_v2 : r.post_type = "help" /\ r.review_status = "pending"

\* C16: every post a SocialV2 page lists is approved in the store, so a help
\* post (such as one created with reward_points 10) is in no listing while
\* it is pending or rejected.
C16_ListedIsApproved ==
    \A s \in Sessions : \A i \in DOMAIN social[s].posts :
      /\ social[s].posts[i].review_status = "approved"
      /\ \E r \in posts_v2 : /\ r.id = social[s].posts[i].id
                             /\ r.review_status = "approved"

C16_Witness ==
    \E s \in Sessions :
      /\ page[s] = "social" /\ social[s].activeTab = "help"
      /\ Len(social[s].posts) = 1
      /\ social[s].posts[1].post_type = "help"
      /\ \E r \in posts_v2 : /\ r.post_type = "help" /\ r.reward_points = 10
                             /\ r.review_status = "pending"

\* C17: when an inspector confirms approve (reject) in the dashboard's dialog
\* for a help post that is pending, and the handler reports no failed request,
\* the post's review_status becomes approved (rejected) and the post is no
\* longer among the pending tasks.
C17_PostReviewed ==
    [][\A s \in Sessions :
         (/\ HandleReview(s)
          /\ dash[s].selectedItem.itemType = "post"
          /\ IsInspector(account[s])
          /\ dash[s].selectedItem.id \in ItemsOf(PendingPosts)
          /\ last'.out # "review_failed")
         => /\ \E r \in posts_v2' :
                 /\ r.id = dash[s].selectedItem.id
                 /\ r.post_type = "help"
                 /\ r.review_status = IF dash[s].reviewType = "approve"
                                      THEN "approved" ELSE "rejected"
            /\ dash[s].selectedItem.id \notin ItemsOf(PendingPostsOf(posts_v2'))]_vars

Eligible(profile) ==
    profile.level >= REQUIRED_LEVEL /\ profile.points >= REQUIRED_POINTS

\* C18: an account gets the inspector flag only in a step in which the apply
\* endpoint answers ok to its own application while its profile has the
\* required level and points; an application of an account that is not
\* eligible then is answered PermissionDenied and changes no flag, whatever
\* the request claims.
C18_GrantOnlyIfEligible ==
    [][/\ \A u \in inspectors' \ inspectors :
            /\ grant'.user = u /\ grant'.result = "ok"
            /\ Eligible(ProfileOf(u))
       /\ (grant' # grant /\ ~Eligible(ProfileOf(grant'.user)))
            => /\ grant'.result = "PermissionDenied"
               /\ inspectors' = inspectors]_vars

C18_Witness ==
    /\ inspectors = {"u1"}
    /\ \E s \in Sessions : profileView[s].isInspector
    /\ grant.user = "u2" /\ grant.claimed
    /\ grant.result = "PermissionDenied"

\* C19: the answer of an eligibility check is eligible exactly if the
\* profile it read has level >= REQUIRED_LEVEL and points >= REQUIRED_POINTS,
\* on both routes, and it reports these two thresholds.
C19_EligibleIff ==
    check # NoCheck =>
      /\ check.answer.eligible <=> (/\ check.profile.level >= REQUIRED_LEVEL
                                     /\ check.profile.points >= REQUIRED_POINTS)
      /\ check.answer.required_level = REQUIRED_LEVEL
      /\ check.answer.required_points = REQUIRED_POINTS

C19_Witness ==
    /\ check.via = "experience"
    /\ check.profile.level >= REQUIRED_LEVEL
    /\ check.profile.points < REQUIRED_POINTS
    /\ ~check.answer.eligible

\* C20: a step in which the backend serves an eligibility check, on the
\* eligibility route or through the experience endpoint with action_type
\* check_inspector, leaves the profile it read (experience, level, points)
\* and every inspector flag as they were.
C20_CheckIsPure ==
    [][check' # check
         => /\ user_profile'[check'.user] = check'.profile
            /\ inspectors' = inspectors]_vars

C20_Witness ==
    /\ check.via = "experience"
    /\ check.profile.experience = 95
    /\ user_profile[check.user] = check.profile

Levels == 1..3

\* C21: no step lowers the experience or the level of a profile, whatever
\* awards it receives, and a profile whose experience has reached L x 100
\* has at least level L.
C21_LevelNeverDecreases ==
    /\ [](\A u \in Users : \A L \in Levels :
            user_profile[u].experience >= L * 100 => user_profile[u].level >= L)
    /\ [][\A u \in Users :
            /\ user_profile'[u].experience >= user_profile[u].experience
            /\ user_profile'[u].level >= user_profile[u].level]_vars

C21_Witness ==
    /\ awards = 1
    /\ user_profile["u1"].experience = 100
    /\ user_profile["u1"].level = 2

PostRow(S, id) == CHOOSE r \in S : r.id = id

CommentsOf(u) == {c \in comments : c.user_id = u}

\* C22: a comment award adds 2 to the experience of the commenting account
\* and sets its level to one level per band of 100 experience, leaving its
\* points: from experience 95 it goes to 97 with level 1, from 97 to 99 with
\* level 1, and from 99 to 101 with level 2.
C22_CommentAward ==
    [][\A u \in Users :
         (comments' # comments /\ user_profile'[u] # user_profile[u]) =>
           LET e == ProfileOf(u).experience
               after == user_profile'[u]
           IN /\ after.experience = e + 2
              /\ after.level = (after.experience \div 100) + 1
              /\ after.points = ProfileOf(u).points
              /\ e = 95 => (after.experience = 97 /\ after.level = 1)
              /\ e = 97 => (after.experience = 99 /\ after.level = 1)
              /\ e = 99 => (after.experience = 101 /\ after.level = 2)]_vars

C22_Witness ==
    /\ Cardinality(CommentsOf("u1")) = 3
    /\ user_profile["u1"].experience = 101
    /\ user_profile["u1"].level = 2

\* C23: is_solved and solver_id of a post change only in a markAsSolved of a
\* session whose logged-in user is the post's author; a markAsSolved of a
\* logged-out session or of another user updates no post.
C23_OnlyAuthorSolves ==
    [][/\ \A r \in posts_v2 :
            (\/ PostRow(posts_v2', r.id).is_solved # r.is_solved
             \/ PostRow(posts_v2', r.id).solver_id # r.solver_id)
              => \E s \in Sessions, solverId \in Users :
                   /\ MarkAsSolved(s, r.id, solverId)
                   /\ user[s] = r.user_id /\ account[s] = r.user_id
       /\ \A s \in Sessions, postId \in PostIds, solverId \in Users :
            (/\ MarkAsSolved(s, postId, solverId)
             /\ \/ user[s] = NoUser
                \/ PostRow(posts_v2, postId).user_id # user[s])
              => posts_v2' = posts_v2]_vars

C23_Witness ==
    /\ last = Done("markAsSolved", "not_allowed")
    /\ \E s \in Sessions :
         /\ user[s] = "u1"
         /\ \E post \in FindPost(social[s].posts, 1) : post.user_id = "u2"
    /\ ~PostRow(posts_v2, 1).is_solved

\* C24: once a post's is_solved is true, no step changes its is_solved or
\* its solver_id, also not a markAsSolved of its author with another solver.
C24_SolvedOnce ==
    [][\A r \in posts_v2 :
         r.is_solved => /\ PostRow(posts_v2', r.id).is_solved
                        /\ PostRow(posts_v2', r.id).solver_id = r.solver_id]_vars

\* C25: a handleComment that succeeds (the comment is created, the count
\* updated, the award posted) leaves the stored comments_count of the post
\* one above what it was, also when the comments of two sessions interleave.
C25_CountsEveryComment ==
    [][\A r \in posts_v2 :
         (/\ last' = Done("handleComment", "commented")
          /\ \E c \in comments' \ comments : c.post_id = r.id)
           => PostRow(posts_v2', r.id).comments_count = r.comments_count + 1]_vars

\* C26: experience is awarded only in a handler run whose triggering write
\* (the new post, the likes_count update, the new comment and its count) was
\* applied by the store, and a handleLike whose award fails leaves the
\* likes_count it wrote in the store and the experience as it was.
C26_AwardAfterWrite ==
    [][/\ \A u \in Users :
            user_profile'[u].experience > user_profile[u].experience =>
              \/ /\ last'.op = "handleCreatePost"
                 /\ Cardinality(posts_v2') = Cardinality(posts_v2) + 1
              \/ /\ last'.op = "handleLike"
                 /\ likes' = likes + 1
              \/ /\ last'.op = "handleComment"
                 /\ Cardinality(comments') = Cardinality(comments) + 1
                 /\ \A c \in comments' \ comments :
                      PostRow(posts_v2', c.post_id).comments_count =
                        (CHOOSE post \in FindPost(social["s1"].posts, c.post_id) :
                           TRUE).comments_count + 1
       /\ \A postId \in PostIds :
            (/\ HandleLike("s1", postId)
             /\ likes' = likes + 1
             /\ last' = Done("handleLike", "like_failed"))
              => /\ PostRow(posts_v2', postId).likes_count =
                      (CHOOSE post \in FindPost(social["s1"].posts, postId) :
                         TRUE).likes_count + 1
                 /\ user_profile' = user_profile]_vars

C26_Witness ==
    /\ last = Done("handleLike", "like_failed")
    /\ likes = 1
    /\ PostRow(posts_v2, 1).likes_count = 1
    /\ user_profile["u1"].experience = 95

\* C28: no step lowers the stored likes_count of a post, also not a like
\* from a session whose loaded post list is stale.
C28_LikesNeverDecrease ==
    [][\A r \in posts_v2 :
         PostRow(posts_v2', r.id).likes_count >= r.likes_count]_vars

CheckoutSteps ==
    {"order_creation_failed", "order_item_creation_failed", "cart_deletion_failed"}

\* C27: a cart load that shows no failure has loaded every cart_items row of
\* the account with its product, and a checkout that fails reports the step
\* that failed: order creation, order-item creation or cart deletion.
C27_NoSilentFailure ==
    [][/\ \A s \in Sessions :
            (OpenCart(s) /\ last' = Done("checkAuth", "none"))
              => ItemIds(cartItems'[s]) = RowIds(UserRows(account[s]))
       /\ (/\ last' # last
           /\ last'.op = "checkout"
           /\ last'.out \notin {"order_ok", "cart_empty"})
             => last'.out \in CheckoutSteps]_vars

HasOrderItem(o, line) ==
    \E k \in DOMAIN order_items :
      /\ order_items[k].order_id = o
      /\ order_items[k].product_id = line.product_id
      /\ order_items[k].quantity = line.quantity
      /\ order_items[k].price = line.product.price

\* C29: a step of checkout deletes a cart_items row only after the Order of
\* that checkout and an OrderItem for every one of its cart lines have been
\* created; the steps that create the Order and the OrderItems, also the
\* ones that fail, delete no row.
C29_DeleteAfterOrderItems ==
    [][/\ cart_items' # cart_items
            => \E s \in Sessions :
                 /\ CheckoutDeleteItem(s)
                 /\ coOrder[s] \in DOMAIN orders
                 /\ \A i \in DOMAIN cartItems[s] :
                      HasOrderItem(coOrder[s], cartItems[s][i])
       /\ \A s \in Sessions :
            (CheckoutCreateOrder(s) \/ CheckoutCreateItem(s))
              => cart_items' = cart_items]_vars

C29_Witness ==
    /\ last = Done("checkout", "order_failed")
    /\ \E o \in DOMAIN orders :
         /\ orderInfo[o].outcome = "failed"
         /\ Len(orderInfo[o].lines) = 2
         /\ Len(OrderItemsOf(o)) = 1
         /\ ItemIds(orderInfo[o].lines) \subseteq RowIds(cart_items)

ItemAmounts(items) == [k \in DOMAIN items |-> items[k].price * items[k].quantity]

\* C30: every Order whose checkout has ended has total_amount equal to the
\* sum of price x quantity over the OrderItems with its order_id, also when
\* an order-item creation of that checkout failed.
C30_TotalMatchesItems ==
    \A o \in DOMAIN orders :
      orderInfo[o].outcome # "running" =>
        orders[o].total_amount =
          SumOver(ItemAmounts(OrderItemsOf(o)), DOMAIN OrderItemsOf(o))

====
